---- MODULE Spec2Model ----
(***************************************************************************)
(* Model of the PDF pipeline of academic-mcp (src/src/pdf-utils.ts):       *)
(*   - PDFUtils.downloadPDF with its paywall fallback (isPaywalledSource,  *)
(*     extractTitleFromUrl, findPaperOnArxiv and the recursive retry),     *)
(*   - the downloads directory with listDownloadedPDFs / cleanupDownloads, *)
(*   - the chunked branch of the read_pdf_text tool handler together with  *)
(*     PDFUtils.readPDFTextChunked and PDFUtils.readPDFText.               *)
(* Strings are sequences of one-character strings, so that the string      *)
(* functions of the source are computed and not assumed.                   *)
(*                                                                         *)
(* Environment assumptions of the model: a write into the downloads        *)
(* directory (fs.writeFileSync) succeeds and is atomic; the directory      *)
(* holds only what this process wrote; URLs carry no percent-escapes.      *)
(***************************************************************************)
EXTENDS Integers, Sequences, FiniteSets, TLC

VARIABLES
    dir,        \* downloads directory: file name -> URL whose bytes it holds
    now,        \* the last value Date.now() was seen to have
    pc,         \* position of the running tool call ("idle" between calls)
    op,         \* tool that is running / ran last
    stack,      \* downloadPDF activation records, outermost first
    fname,      \* caller-supplied filename of the running download
    title,      \* title handed to findPaperOnArxiv by the innermost frame
    resp,       \* last tool response returned to the caller
    h,          \* history of the running/last call (observation only)
    rd,         \* state of the chunked read_pdf_text call
    cc,         \* the downloadPDF calls running concurrently
    fan,        \* state of the search_both_sources call
    rs,         \* state of the findPaperOnArxiv call
    pf          \* the last application of a function of PDFUtils: arguments and result

vars == <<dir, now, pc, op, stack, fname, title, resp, h, rd, cc, fan, rs, pf>>
\* what the sequential download and read tools leave alone
others == <<cc, fan, rs, pf>>

None == "none"

-----------------------------------------------------------------------------
(* Bounds of the model *)

MaxDepth == 2       \* downloadPDF activations modelled in one call
MaxClock == 1       \* largest value of Date.now()
MaxPages == 3       \* largest page count pdfinfo reports
MaxAttempts == 4    \* attempts of the chunked read counted (saturating)
MaxChunkSize == 3   \* largest requested chunkSize
MaxHits == 3        \* most results a provider answers with, and largest maxResults
MaxNameLen == 3     \* longest name sanitization is applied to
MaxEntries == 3     \* most entries in one answer of the arXiv API
MaxDocPages == 12   \* largest page count the window loop is run on
MaxWindow == 5      \* largest chunk size the window loop is run with

-----------------------------------------------------------------------------
(* Strings *)

Min(a, b) == IF a <= b THEN a ELSE b
Max(a, b) == IF a >= b THEN a ELSE b

\* s.startsWith(p) at offset i (1-based)
MatchesAt(s, p, i) ==
    /\ i + Len(p) - 1 <= Len(s)
    /\ \A k \in 1..Len(p) : s[i + k - 1] = p[k]

\* positions at which p occurs in s
Occurrences(s, p) == {i \in 1..(Len(s) + 1) : MatchesAt(s, p, i)}

SetMin(S) == CHOOSE x \in S : \A y \in S : x <= y
SetMax(S) == CHOOSE x \in S : \A y \in S : x >= y

\* String.prototype.includes
Includes(s, p) == Occurrences(s, p) # {}

\* String.prototype.endsWith
EndsWith(s, p) == Len(s) >= Len(p) /\ MatchesAt(s, p, Len(s) - Len(p) + 1)

\* s.replace(p, '') with a string pattern: removes the FIRST occurrence only
RemoveFirst(s, p) ==
    IF ~Includes(s, p) THEN s
    ELSE LET i == SetMin(Occurrences(s, p))
         IN  SubSeq(s, 1, i - 1) \o SubSeq(s, i + Len(p), Len(s))

\* s.replace(/p$/, ''): removes p only at the end
RemoveTrailing(s, p) ==
    IF EndsWith(s, p) THEN SubSeq(s, 1, Len(s) - Len(p)) ELSE s

\* s.split(c) then the last element: the text after the last c
LastPart(s, c) ==
    LET P == {i \in 1..Len(s) : s[i] = c}
    IN  IF P = {} THEN s ELSE SubSeq(s, SetMax(P) + 1, Len(s))

\* the text of s before the first c (all of s if there is none)
Before(s, c) ==
    LET P == {i \in 1..Len(s) : s[i] = c}
    IN  IF P = {} THEN s ELSE SubSeq(s, 1, SetMin(P) - 1)

\* the text of s after the first c (empty if there is none)
After(s, c) ==
    LET P == {i \in 1..Len(s) : s[i] = c}
    IN  IF P = {} THEN <<>> ELSE SubSeq(s, SetMin(P) + 1, Len(s))

DigitChars == <<"0","1","2","3","4","5","6","7","8","9">>

\* decimal rendering of a natural number, as `${n}` does
RECURSIVE Digits(_)
Digits(n) == IF n < 10 THEN <<DigitChars[n + 1]>>
             ELSE Digits(n \div 10) \o <<DigitChars[(n % 10) + 1]>>

LowerChars == {"a","b","c","d","e","f","g","h","i","j","k","l","m",
               "n","o","p","q","r","s","t","u","v","w","x","y","z"}
UpperChars == {"A","B","C","D","E","F","G","H","I","J","K","L","M",
               "N","O","P","Q","R","S","T","U","V","W","X","Y","Z"}
DigitSet == {"0","1","2","3","4","5","6","7","8","9"}

DotPdf == <<".","p","d","f">>
ArxivOrg == <<"a","r","x","i","v",".","o","r","g">>
ScholarGoogle == <<"s","c","h","o","l","a","r",".","g","o","o","g","l","e">>
ArxivPdfPrefix == <<"a","r","x","i","v",".","o","r","g","/","p","d","f","/">>
PfxArxiv == <<"a","r","x","i","v","_">>
PfxScholar == <<"s","c","h","o","l","a","r","_">>
PfxPaper == <<"p","a","p","e","r","_">>
Unknown == <<"u","n","k","n","o","w","n">>
KeyTitle == <<"t","i","t","l","e">>
KeyQ == <<"q">>
KeyQuery == <<"q","u","e","r","y">>

-----------------------------------------------------------------------------
(* Inputs: the URLs and filenames the calls are made with, and the URLs    *)
(* the arXiv API answers with                                              *)

UrlScienceDirect == <<"h","t","t","p","s",":","/","/","s","c","i","e","n","c","e","d","i","r","e","c","t",".","c","o","m","/","p","a","p","e","r","1","2","3",".","p","d","f">>
UrlPaywalledTitle == <<"h","t","t","p","s",":","/","/","i","e","e","e",".","o","r","g","/","a","t","t","e","n","t","i","o","n","_","i","s","_","a","l","l","_","y","o","u","_","n","e","e","d">>
UrlOpenDir == <<"h","t","t","p","s",":","/","/","e","x","a","m","p","l","e",".","c","o","m","/">>
UrlArxiv == <<"h","t","t","p","s",":","/","/","a","r","x","i","v",".","o","r","g","/","p","d","f","/","1","7","0","6",".","0","3","7","6","2">>
UrlAcm == <<"h","t","t","p","s",":","/","/","d","l",".","a","c","m",".","o","r","g","/","p","d","f","/","1","7","0","6",".","0","3","7","6","2">>
UrlScholar == <<"h","t","t","p","s",":","/","/","s","c","h","o","l","a","r",".","g","o","o","g","l","e",".","c","o","m","/","s","c","h","o","l","a","r","?","q","=","g","p","t">>
UrlQueryShort == <<"h","t","t","p","s",":","/","/","i","e","e","e",".","o","r","g","/","d","o","c","?","q","=","g","p","t">>
UrlQueryLong == <<"h","t","t","p","s",":","/","/","i","e","e","e",".","o","r","g","/","d","o","c","?","t","i","t","l","e","=","a","t","t","e","n","t","i","o","n","+","i","s","+","a","l","l">>
FileShort == <<"p","a","p","e","r",".","p","d","f">>
FileTraversal == <<".",".","/",".",".","/","e","t","c","/","p","a","s","s","w","d">>
FileDots == <<".",".">>
FileLong == <<"a","t","t","e","n","t","i","o","n","_","i","s","_","a","l","l","_","y","o","u","_","n","e","e","d">>

CallUrls == {UrlScienceDirect, UrlPaywalledTitle, UrlOpenDir}
ResolverUrls == {UrlArxiv, UrlAcm}
Urls == CallUrls \cup ResolverUrls
\* an absent (undefined / null) string is the empty string: every test the
\* source makes on an optional string is a truthiness test, which '' fails too
NoString == <<>>
Filenames == {NoString, FileLong}

ErrorCodes == {"403", "timeout"}

-----------------------------------------------------------------------------
(* Pure functions of PDFUtils *)

paywalledDomains == {
    <<"s","c","h","o","l","a","r",".","g","o","o","g","l","e",".","c","o","m">>,
    <<"s","c","i","e","n","c","e","d","i","r","e","c","t",".","c","o","m">>,
    <<"i","e","e","e",".","o","r","g">>,
    <<"a","c","m",".","o","r","g">>,
    <<"s","p","r","i","n","g","e","r",".","c","o","m">>,
    <<"w","i","l","e","y",".","c","o","m">>,
    <<"t","a","n","d","f","o","n","l","i","n","e",".","c","o","m">>,
    <<"s","a","g","e","p","u","b",".","c","o","m">>,
    <<"t","a","y","l","o","r","f","r","a","n","c","i","s",".","c","o","m">>,
    <<"e","m","e","r","a","l","d",".","c","o","m">>,
    <<"j","s","t","o","r",".","o","r","g">> }

\* paywalledDomains.some(domain => url.includes(domain))
isPaywalledSource(url) == \E d \in paywalledDomains : Includes(url, d)

\* s.replace(/[_-]/g, ' ')
SpaceOut(s) == [i \in 1..Len(s) |-> IF s[i] \in {"_", "-"} THEN " " ELSE s[i]]

\* filename.replace(/[^a-zA-Z0-9._-]/g, '_')
\* a replace without the g flag: only the first disallowed character
sanitizeFirstOnly(s) ==
    LET ok == LowerChars \cup UpperChars \cup DigitSet \cup {".", "_", "-"}
        bad == {i \in 1..Len(s) : s[i] \notin ok}
    IN  [i \in 1..Len(s) |-> IF bad # {} /\ i = SetMin(bad) THEN "_" ELSE s[i]]

\* filename.replace(/[^a-zA-Z0-9._-]/g, '_')
sanitize(s) ==
    [i \in 1..Len(s) |->
        IF s[i] \in LowerChars \cup UpperChars \cup DigitSet \cup {".", "_", "-"}
        THEN s[i] ELSE "_"]

\* the pairs of a query string: q.split('&'), each split at its first '='
RECURSIVE QueryPairs(_)
QueryPairs(q) ==
    IF q = <<>> THEN <<>>
    ELSE LET item == Before(q, "&")
             pair == [key |-> Before(item, "="),
                      value |-> [i \in 1..Len(After(item, "=")) |->
                                   IF After(item, "=")[i] = "+" THEN " "
                                   ELSE After(item, "=")[i]]]
         IN  <<pair>> \o QueryPairs(After(q, "&"))

\* new URL(url).searchParams.get(key): the first value under key, absent -> NoString
searchParamsGet(url, key) ==
    LET pairs == QueryPairs(Before(After(url, "?"), "#"))
        hits == {i \in 1..Len(pairs) : pairs[i].key = key}
    IN  IF hits = {} THEN NoString ELSE pairs[SetMin(hits)].value

Or(a, b) == IF a # NoString THEN a ELSE b

extractTitleFromUrl(url, filename) ==
    LET cleanFilename == SpaceOut(RemoveTrailing(filename, DotPdf))
        titleParam == Or(searchParamsGet(url, KeyTitle),
                         Or(searchParamsGet(url, KeyQ), searchParamsGet(url, KeyQuery)))
        lastPart == LastPart(url, "/")
    IN  IF filename # NoString /\ Len(cleanFilename) > 10 THEN cleanFilename
        ELSE IF titleParam # NoString THEN titleParam
        ELSE IF lastPart # NoString /\ Len(lastPart) > 10 /\ ~Includes(lastPart, <<".">>)
             THEN SpaceOut(lastPart)
        ELSE NoString

\* pdfUrl.match(/arxiv\.org\/pdf\/([^\/]+)/)?.[1] || 'unknown'
arxivIdOf(pdfUrl) ==
    LET starts == {i \in Occurrences(pdfUrl, ArxivPdfPrefix) :
                      /\ i + Len(ArxivPdfPrefix) <= Len(pdfUrl)
                      /\ pdfUrl[i + Len(ArxivPdfPrefix)] # "/"}
    IN  IF starts = {} THEN Unknown
        ELSE Before(SubSeq(pdfUrl, SetMin(starts) + Len(ArxivPdfPrefix), Len(pdfUrl)), "/")

\* the name downloadPDF stores the bytes of pdfUrl under; t is Date.now()
storedFilename(pdfUrl, filename, t) ==
    LET last == LastPart(pdfUrl, "/")
        baseFilename ==
            IF Includes(last, ArxivOrg) THEN PfxArxiv \o arxivIdOf(pdfUrl)
            ELSE IF Includes(last, ScholarGoogle) THEN PfxScholar \o Digits(t)
            ELSE Or(RemoveFirst(last, DotPdf), PfxPaper \o Digits(t))
        named == IF filename = NoString THEN baseFilename \o DotPdf ELSE filename
        withExt == IF EndsWith(named, DotPdf) THEN named ELSE named \o DotPdf
    IN  sanitize(withExt)

-----------------------------------------------------------------------------
(* downloadPDF and the tools around the downloads directory *)

NoErr == [url |-> NoString, code |-> None]
EmptyDir == [n \in {} |-> NoString]

\* a write that leaves its temporary file behind
TempSuffix == <<".","t","m","p">>
writeLeavingTemp(d, name, data) ==
    [n \in DOMAIN d \cup {name, name \o TempSuffix} |->
        IF n \in {name, name \o TempSuffix} THEN data ELSE d[n]]

\* a write that does not truncate: an existing file keeps its first byte
writeMerging(d, name, data) ==
    [n \in DOMAIN d \cup {name} |->
        IF n # name THEN d[n]
        ELSE IF name \in DOMAIN d /\ d[name] # <<>> /\ data # <<>>
             THEN <<d[name][1]>> \o Tail(data)
             ELSE data]

\* fs.writeFileSync(filepath, response.data): creates or overwrites one file
writeFileSync(d, name, data) ==
    [n \in DOMAIN d \cup {name} |-> IF n = name THEN data ELSE d[n]]

\* the fallback without its paywall gate
fallbackTitleUngated(url, filename) == extractTitleFromUrl(url, filename)

\* the catch branch's gate, lines 78-82: the title the fallback searches for,
\* NoString when the source is not paywalled or no title can be inferred
fallbackTitle(url, filename) ==
    IF isPaywalledSource(url) THEN extractTitleFromUrl(url, filename) ELSE NoString

\* the failure of the inner call propagated instead of the own fetch error
thrownInnermost(st) == st[Len(st)].err

\* the error the outermost downloadPDF throws when the innermost activation
\* fails: each activation swallows the failure of the call it made (line 89)
\* and throws its own fetch error (line 95)
RECURSIVE thrownError(_)
thrownError(st) ==
    IF Len(st) = 1 THEN st[1].err ELSE thrownError(SubSeq(st, 1, Len(st) - 1))

\* readdirSync(...).filter(file => file.endsWith('.pdf'))
listDownloadedPDFs(d) == {n \in DOMAIN d : EndsWith(n, DotPdf)}

\* a cleanup that stops one file short
unlinkAllButOne(d, files) ==
    IF files = {} THEN d
    ELSE [n \in DOMAIN d \ (files \ {CHOOSE f \in files : TRUE}) |-> d[n]]

\* files.forEach(file => fs.unlinkSync(...)) over files = readdirSync(...)
unlinkAll(d, files) == [n \in DOMAIN d \ files |-> d[n]]

NoResp == [kind |-> None, isError |-> FALSE, fields |-> {}, filepath |-> NoString,
           cause |-> NoErr, files |-> {}, count |-> 0, text |-> None]

\* the tool results of the CallToolRequestSchema handler
downloadResponse(path) ==
    [NoResp EXCEPT !.kind = "download_pdf", !.filepath = path,
                   !.fields = {"action", "pdfUrl", "filepath", "message"}]
downloadAndReadResponse(path, txt) ==
    [NoResp EXCEPT !.kind = "download_and_read_pdf", !.filepath = path, !.text = txt,
                   !.fields = {"action", "pdfUrl", "filepath", "text"}]
listResponse(files) ==
    [NoResp EXCEPT !.kind = "list_downloaded_pdfs", !.files = files,
                   !.count = Cardinality(files),
                   !.fields = {"action", "downloadsDirectory", "files", "count"}]
cleanupResponse ==
    [NoResp EXCEPT !.kind = "cleanup_downloads", !.fields = {"action", "message"}]
errorResponse(err) ==
    [NoResp EXCEPT !.kind = "error", !.isError = TRUE, !.cause = err]

NoHistory == [url |-> NoString, fetches |-> 0, resolves |-> 0, writes |-> 0,
              dir0 |-> EmptyDir, primaryErr |-> NoErr, lastErr |-> NoErr,
              lastUrl |-> NoString, declined |-> FALSE, cleaned |-> FALSE,
              logged |-> <<>>, returned |-> {}]

DownloadOps == {"download_pdf", "download_and_read_pdf"}
SearchOutcomes == {"fail", "empty", "nolink"}


-----------------------------------------------------------------------------
(* readPDFText, readPDFTextChunked and the chunked branch of read_pdf_text *)

maxTokens == 15000         \* const maxTokens = 15000
CharsPerToken == 4         \* responseText.length / 4
MaxFirstPageChars == 80000 \* text.substring(0, 80000)
StartCap == 2              \* Math.min(chunkSize, 2)
DefaultChunkSize == 10     \* chunkSize = 10
PlaceholderChars == 97     \* length of the message readPDFText returns when pdftotext fails
EnvelopeChars == 121       \* JSON.stringify(response, null, 2) without its variable parts
ChunkChars == 92           \* the same for one element of chunks

\* the path the read is made with
ReadPath == <<"/","t","m","p","/","p","a","p","e","r",".","p","d","f">>

\* A text is [plain, esc]: the number of its characters JSON.stringify copies
\* and the number it writes as a two-character escape (\n, \f, \", \\).
Text(plain, esc) == [plain |-> plain, esc |-> esc]
length(t) == t.plain + t.esc
jsonLength(t) == t.plain + 2 * t.esc
Placeholder == Text(PlaceholderChars, 0)

\* the pages a document is made of
SmallPage == Text(1000, 20)
BigPage == Text(61000, 500)
HugePage == Text(90000, 1000)
PageKinds == {SmallPage, BigPage, HugePage}

RECURSIVE Concat(_, _, _)
Concat(pages, first, last) ==
    IF first > last THEN Text(0, 0)
    ELSE LET rest == Concat(pages, first + 1, last)
         IN  Text(pages[first].plain + rest.plain, pages[first].esc + rest.esc)

\* PDFUtils.readPDFText(filepath, startPage, endPage) on an existing file:
\* the stdout of pdftotext -f startPage -l endPage, or the fixed message
readPDFText(file, startPage, endPage) ==
    IF file.extractOk /\ startPage <= Len(file.pages)
    THEN Concat(file.pages, startPage, Min(endPage, Len(file.pages)))
    ELSE Placeholder

\* an optional argument left out
Undefined == -1

\* a command that gives the page range only when both bounds are given
commandBothOrNone(startPage, endPage) ==
    IF startPage # Undefined /\ endPage # Undefined
    THEN [f |-> startPage, l |-> endPage]
    ELSE [f |-> Undefined, l |-> Undefined]

\* the pdftotext command line of lines 211-220, by its -f and -l options
command(startPage, endPage) ==
    IF startPage # Undefined
    THEN [f |-> startPage, l |-> endPage]
    ELSE [f |-> Undefined, l |-> Undefined]

\* execAsync(command): pdftotext prints pages f..l, the first page when -f is
\* absent and the last page when -l is absent or beyond the end; it fails when
\* it cannot run or open the file, or when the first page lies after the last
pdftotext(file, cmd) ==
    LET first == IF cmd.f = Undefined THEN 1 ELSE Max(cmd.f, 1)
        last == IF cmd.l = Undefined \/ cmd.l < 1 \/ cmd.l > Len(file.pages)
                THEN Len(file.pages) ELSE cmd.l
    IN  IF file.extractOk /\ first <= last
        THEN [ok |-> TRUE, stdout |-> Concat(file.pages, first, last)]
        ELSE [ok |-> FALSE, stdout |-> Text(0, 0)]

\* PDFUtils.readPDFText(filepath, startPage?, endPage?), lines 202-236: what
\* it throws and what it returns
readPDFTextCall(file, startPage, endPage) ==
    IF ~file.exists
    THEN [thrown |-> "NotFound", text |-> Text(0, 0)]
    ELSE LET run == pdftotext(file, command(startPage, endPage))
         IN  [thrown |-> None, text |-> IF run.ok THEN run.stdout ELSE Placeholder]

\* the for loop of readPDFTextChunked (lines 253-260)
RECURSIVE chunkTexts(_, _, _, _)
chunkTexts(file, startPage, chunkSize, totalPages) ==
    IF startPage > totalPages THEN <<>>
    ELSE LET endPage == Min(startPage + chunkSize - 1, totalPages)
         IN  <<readPDFText(file, startPage, endPage)>>
                 \o chunkTexts(file, startPage + chunkSize, chunkSize, totalPages)

\* the page windows the for loop of readPDFTextChunked passes to readPDFText
\* (lines 256-258)
RECURSIVE chunkWindows(_, _, _)
chunkWindows(startPage, chunkSize, totalPages) ==
    IF startPage > totalPages THEN <<>>
    ELSE LET endPage == Min(startPage + chunkSize - 1, totalPages)
         IN  <<[startPage |-> startPage, endPage |-> endPage]>>
                 \o chunkWindows(startPage + chunkSize, chunkSize, totalPages)

\* PDFUtils.readPDFTextChunked(filepath, chunkSize): what it throws, or its result
readPDFTextChunked(file, chunkSize) ==
    LET totalPages == IF file.pdfinfoOk THEN Len(file.pages) ELSE 0
    IN  IF ~file.exists THEN [thrown |-> "NotFound", chunks |-> <<>>, totalPages |-> 0]
        ELSE IF totalPages = 0
             THEN [thrown |-> "PageCountUnavailable", chunks |-> <<>>, totalPages |-> 0]
        ELSE [thrown |-> None, totalPages |-> totalPages,
              chunks |-> chunkTexts(file, 1, chunkSize, totalPages)]

\* chunk metadata whose endPage is not clamped to the page count
chunkEntryUnclamped(chunk, index, currentChunkSize, totalPages) ==
    [chunkIndex |-> index,
     startPage |-> index * currentChunkSize + 1,
     endPage |-> (index + 1) * currentChunkSize,
     text |-> chunk]

\* chunk metadata that counts pages from 0
chunkEntryFromZero(chunk, index, currentChunkSize, totalPages) ==
    [chunkIndex |-> index,
     startPage |-> index * currentChunkSize,
     endPage |-> Min((index + 1) * currentChunkSize - 1, totalPages),
     text |-> chunk]

\* one element of response.chunks (lines 663-668); index is 0-based
chunkEntry(chunk, index, currentChunkSize, totalPages) ==
    [chunkIndex |-> index,
     startPage |-> index * currentChunkSize + 1,
     endPage |-> Min((index + 1) * currentChunkSize, totalPages),
     text |-> chunk]

\* response of lines 657-669
planResponse(result, currentChunkSize) ==
    [kind |-> "plan", totalPages |-> result.totalPages, chunkSize |-> currentChunkSize,
     chunks |-> [i \in 1..Len(result.chunks) |->
                    chunkEntry(result.chunks[i], i - 1, currentChunkSize, result.totalPages)],
     textLength |-> 0, truncated |-> FALSE, error |-> None]

RECURSIVE SumOver(_, _)
SumOver(f, n) == IF n = 0 THEN 0 ELSE f[n] + SumOver(f, n - 1)

\* JSON.stringify(response, null, 2).length
responseLength(r) ==
    EnvelopeChars + Len(ReadPath) + Len(Digits(r.totalPages)) + Len(Digits(r.chunkSize))
    + SumOver([i \in 1..Len(r.chunks) |->
                 ChunkChars + Len(Digits(r.chunks[i].chunkIndex))
                 + Len(Digits(r.chunks[i].startPage)) + Len(Digits(r.chunks[i].endPage))
                 + jsonLength(r.chunks[i].text)], Len(r.chunks))

\* a budget test that accepts every plan
fitsAlways(r) == TRUE

\* estimatedTokens <= maxTokens, with estimatedTokens = length / 4 unrounded
fitsBudget(r) == responseLength(r) <= maxTokens * CharsPerToken

\* the next working chunk size (lines 688 and 692)
halve(currentChunkSize) == Max(1, currentChunkSize \div 2)

\* the loop condition of line 654
loopContinues(currentChunkSize) == currentChunkSize > 0

\* a first-page response that neither cuts the text nor flags it
firstPageUncut(t) ==
    [kind |-> "firstPage", totalPages |-> 0, chunkSize |-> 0, chunks |-> <<>>,
     textLength |-> length(t), truncated |-> FALSE, error |-> None]

\* response of lines 697-713
firstPageResponse(t) ==
    [kind |-> "firstPage", totalPages |-> 0, chunkSize |-> 0, chunks |-> <<>>,
     textLength |-> Min(length(t), MaxFirstPageChars),
     truncated |-> length(t) > MaxFirstPageChars, error |-> None]

readError(what) ==
    [kind |-> "error", totalPages |-> 0, chunkSize |-> 0, chunks |-> <<>>,
     textLength |-> 0, truncated |-> FALSE, error |-> what]

NoReadResp ==
    [kind |-> None, totalPages |-> 0, chunkSize |-> 0, chunks |-> <<>>,
     textLength |-> 0, truncated |-> FALSE, error |-> None]

NoFile == [exists |-> FALSE, pdfinfoOk |-> FALSE, extractOk |-> FALSE, pages |-> <<>>]

Documents == UNION {[1..n -> PageKinds] : n \in 0..MaxPages}
Files == {NoFile} \cup [exists : {TRUE}, pdfinfoOk : BOOLEAN, extractOk : BOOLEAN,
                         pages : Documents]
ChunkSizes == (-1)..MaxChunkSize \cup {DefaultChunkSize}

RdIdle == [pc |-> "idle", file |-> NoFile, chunkSize |-> 0, cur |-> 0, start |-> 0,
           attempts |-> 0, thrown |-> None, overAtOne |-> FALSE, resp |-> NoReadResp]

\* the response bodies the two concurrent calls receive
Bodies == << <<"a", "a">>, <<"b", "b">> >>
Callers == {1, 2}
CallIdle == [pc |-> "idle", url |-> NoString, filename |-> NoString, depth |-> 0,
             at |-> 0, path |-> NoString]
CcIdle == [calls |-> [i \in Callers |-> CallIdle], writes |-> <<>>]
\* what a provider answers to one search request: a failure (network error,
\* HTTP error, unparsable body) or its ranked hits
Failure == [ok |-> FALSE, hits |-> <<>>]
Hits(n) == [ok |-> TRUE, hits |-> [i \in 1..n |-> i]]
Answers == {Failure} \cup {Hits(n) : n \in 0..MaxHits}

Pending == [state |-> "pending", value |-> <<>>]
Fulfilled(v) == [state |-> "fulfilled", value |-> v]
Rejected == [state |-> "rejected", value |-> <<>>]

\* a searchPapers that lets the failure of its request escape
arxivSearchRethrows(answer) ==
    IF answer.ok THEN Fulfilled(answer.hits) ELSE Rejected

\* ArxivClient.searchPapers once its request has answered: the promise it
\* settles with
arxivSearchPapers(answer) ==
    IF answer.ok THEN Fulfilled(answer.hits) ELSE Fulfilled(<<>>)

\* GoogleScholarClient.searchPapers once its request has answered
scholarSearchPapers(answer, maxResults) ==
    IF answer.ok THEN Fulfilled(SubSeq(answer.hits, 1, Min(Len(answer.hits), maxResults)))
    ELSE Fulfilled(<<>>)

\* the text of the search_both_sources result
bothSourcesResponse(arxivResults, scholarResults) ==
    [isError |-> FALSE,
     arxiv |-> [count |-> Len(arxivResults), results |-> arxivResults],
     scholar |-> [count |-> Len(scholarResults), results |-> scholarResults]]
searchError == [isError |-> TRUE, arxiv |-> [count |-> 0, results |-> <<>>],
                scholar |-> [count |-> 0, results |-> <<>>]]

FanIdle == [pc |-> "idle", maxResults |-> 0, arxiv |-> Pending, scholar |-> Pending,
            arxivAnswer |-> Failure, scholarAnswer |-> Failure,
            issued |-> {}, completed |-> <<>>, resp |-> searchError]
\* the titles findPaperOnArxiv is called with
TitlePlain == <<"a","t","t","e","n","t","i","o","n"," ","i","s"," ","a","l","l"," ","y","o","u"," ","n","e","e","d">>
TitlePunct == <<"g","p","t","-","4",":"," ","a"," ","\"","r","e","p","o","r","t","\"","!">>
Titles == {TitlePlain, TitlePunct}

\* an answer of the arXiv API to findPaperOnArxiv: a failed request, or a feed
\* whose entries are given in rank order by their PDF link (NoString: an entry
\* without one)
NoFeed == [ok |-> FALSE, entries |-> <<>>]
Feed(entries) == [ok |-> TRUE, entries |-> entries]
Feeds == {NoFeed} \cup
         {Feed(e) : e \in UNION {[1..n -> ResolverUrls \cup {NoString}] : n \in 0..MaxEntries}}

\* search_query of the first request: ti:"title"
exactQuery(title_) == <<"t", "i", ":", "\"">> \o title_ \o <<"\"">>

\* title.replace(/[^\w\s]/g, ' ')
depunctuate(s) ==
    [i \in 1..Len(s) |->
        IF s[i] \in LowerChars \cup UpperChars \cup DigitSet \cup {"_", " "}
        THEN s[i] ELSE " "]

\* String.prototype.trim
RECURSIVE trim(_)
trim(s) ==
    IF s = <<>> THEN s
    ELSE IF s[1] = " " THEN trim(Tail(s))
    ELSE IF s[Len(s)] = " " THEN trim(SubSeq(s, 1, Len(s) - 1))
    ELSE s

\* search_query of the second request
fallbackQuery(title_) == trim(depunctuate(title_))

\* the PDF link of the first entry that has one
firstLinkedEntry(entries) ==
    LET linked == {i \in 1..Len(entries) : entries[i] # NoString}
    IN  IF linked = {} THEN NoString ELSE entries[SetMin(linked)]

\* entries[0].link.find(type === 'application/pdf')?.$.href || null
firstEntryLink(entries) == IF entries = <<>> THEN NoString ELSE entries[1]

\* !xmlData.feed || !xmlData.feed.entry
noEntries(feed) == feed.entries = <<>>

RsIdle == [pc |-> "idle", title |-> NoString, queries |-> <<>>, answers |-> <<>>,
           result |-> NoString, raised |-> FALSE]
PfIdle == [fn |-> None, applied |-> FALSE]

\* the page arguments readPDFText is called with
PageArgs == {Undefined} \cup 1..(MaxPages + 1)
ReadCalls == [fn : {"readPDFText"}, applied : {FALSE}, file : Files,
              startPage : PageArgs, endPage : PageArgs,
              out : {[thrown |-> None, text |-> Text(0, 0)]}]

OthersIdle == cc = CcIdle /\ fan = FanIdle /\ rs = RsIdle /\ pf = PfIdle

Init ==
    /\ OthersIdle
    /\ dir = EmptyDir
    /\ now = 0
    /\ pc = "idle"
    /\ op = None
    /\ stack = <<>>
    /\ fname = NoString
    /\ title = NoString
    /\ resp = NoResp
    /\ h = NoHistory
    /\ rd = RdIdle

\* a download_pdf or download_and_read_pdf request arrives: downloadPDF(u, f)
\* issues its axios.get
CallDownload(tool, u, f) ==
    /\ pc = "idle"
    /\ op' = tool
    /\ stack' = <<[url |-> u, err |-> NoErr]>>
    /\ fname' = f
    /\ title' = NoString
    /\ resp' = NoResp
    /\ pc' = "fetch"
    /\ h' = [NoHistory EXCEPT !.url = u, !.fetches = 1, !.dir0 = dir, !.lastUrl = u,
                              !.cleaned = FALSE, !.returned = h.returned]
    /\ UNCHANGED <<dir, now, rd, others>>

\* the throw of line 95 reaches the handler's catch (line 793)
Throw(st) ==
    /\ resp' = errorResponse(thrownError(st))
    /\ pc' = "idle"
    /\ stack' = <<>>

\* axios.get of the innermost activation resolves: lines 40-72, and the
\* return through every enclosing activation (`return await`)
FetchOk ==
    /\ pc = "fetch"
    /\ \E t \in now..MaxClock :
        LET top == stack[Len(stack)]
            name == storedFilename(top.url, fname, t)
            timed == name # storedFilename(top.url, fname, t + 1)
        IN  /\ timed \/ t = now
            /\ now' = t
            /\ dir' = writeFileSync(dir, name, top.url)
            /\ h' = [h EXCEPT !.writes = @ + 1, !.lastErr = NoErr,
                               !.returned = IF op = "download_pdf" THEN @ \cup {name}
                                            ELSE @]
            /\ IF op = "download_pdf"
               THEN resp' = downloadResponse(name) /\ pc' = "idle"
               ELSE resp' = [NoResp EXCEPT !.filepath = name] /\ pc' = "read"
    /\ stack' = <<>>
    /\ UNCHANGED <<op, fname, title, rd, others>>

\* axios.get of the innermost activation rejects with `code`: lines 74-95 up
\* to the await of findPaperOnArxiv
FetchFail(code) ==
    /\ pc = "fetch"
    /\ LET d == Len(stack)
           e == [url |-> stack[d].url, code |-> code]
           st == [stack EXCEPT ![d].err = e]
           paperTitle == fallbackTitle(stack[d].url, fname)
       IN  /\ IF paperTitle # NoString
              THEN /\ stack' = st
                   /\ title' = paperTitle
                   /\ pc' = "search1"
                   /\ resp' = resp
              ELSE /\ Throw(st)
                   /\ title' = title
           /\ h' = [h EXCEPT !.primaryErr = IF d = 1 THEN e ELSE @,
                              !.lastErr = e,
                              !.declined = @ \/ d > 1,
                              !.resolves = IF paperTitle # NoString THEN @ + 1 ELSE @]
    /\ UNCHANGED <<dir, now, op, fname, rd, others>>

\* findPaperOnArxiv returned arxivPdfUrl: line 87, the recursive downloadPDF
Recurse(u) ==
    /\ Len(stack) < MaxDepth
    /\ stack' = Append(stack, [url |-> u, err |-> NoErr])
    /\ pc' = "fetch"
    /\ h' = [h EXCEPT !.fetches = @ + 1, !.lastUrl = u]
    /\ UNCHANGED <<resp, title>>

\* findPaperOnArxiv returned null: fall through to line 95
NotFound ==
    /\ Throw(stack)
    /\ h' = [h EXCEPT !.declined = TRUE]
    /\ UNCHANGED title

\* the exact-phrase search of findPaperOnArxiv answers (lines 129-162)
Search1 ==
    /\ pc = "search1"
    /\ \/ \E u \in ResolverUrls : Recurse(u)
       \/ \E o \in {"fail", "nolink"} : NotFound
       \/ /\ pc' = "search2"
          /\ UNCHANGED <<stack, resp, title, h>>
    /\ UNCHANGED <<dir, now, op, fname, rd, others>>

\* the unquoted search of findPaperOnArxiv answers (lines 134-154)
Search2 ==
    /\ pc = "search2"
    /\ \/ \E u \in ResolverUrls : Recurse(u)
       \/ \E o \in SearchOutcomes : NotFound
    /\ UNCHANGED <<dir, now, op, fname, rd, others>>

\* downloadAndReadPDF line 272: readPDFText(filepath) of the file just written
ReadDownloaded ==
    /\ pc = "read"
    /\ \E ok \in BOOLEAN :
          resp' = downloadAndReadResponse(resp.filepath,
                      IF ok THEN "extracted" ELSE "placeholder")
    /\ pc' = "idle"
    /\ h' = [h EXCEPT !.returned = @ \cup {resp.filepath}]
    /\ UNCHANGED <<dir, now, op, stack, fname, title, rd, others>>

\* the list_downloaded_pdfs tool
ListDownloaded ==
    /\ pc = "idle"
    /\ op' = "list_downloaded_pdfs"
    /\ resp' = listResponse(listDownloadedPDFs(dir))
    /\ h' = [NoHistory EXCEPT !.dir0 = dir, !.cleaned = h.cleaned,
                              !.returned = h.returned]
    /\ UNCHANGED <<dir, now, pc, stack, fname, title, rd, others>>

\* the cleanup_downloads tool: cleanupDownloads() and the fixed message
Cleanup ==
    /\ pc = "idle"
    /\ op' = "cleanup_downloads"
    /\ LET files == DOMAIN dir
       IN  /\ dir' = unlinkAll(dir, files)
           /\ h' = [NoHistory EXCEPT !.dir0 = dir, !.cleaned = TRUE,
                                     !.logged = <<Cardinality(files)>>]
    /\ resp' = cleanupResponse
    /\ UNCHANGED <<now, pc, stack, fname, title, rd, others>>

Next ==
    \/ \E tool \in DownloadOps, u \in CallUrls, f \in Filenames : CallDownload(tool, u, f)
    \/ FetchOk
    \/ \E code \in ErrorCodes : FetchFail(code)
    \/ Search1
    \/ Search2
    \/ ReadDownloaded
    \/ ListDownloaded
    \/ Cleanup

-----------------------------------------------------------------------------
(* The chunked read_pdf_text call *)

InitRead ==
    /\ OthersIdle
    /\ dir = EmptyDir
    /\ now = 0
    /\ pc = "idle"
    /\ op = None
    /\ stack = <<>>
    /\ fname = NoString
    /\ title = NoString
    /\ resp = NoResp
    /\ h = NoHistory
    /\ rd = RdIdle

\* read_pdf_text arrives with chunked = true: lines 649-654
CallRead(file, chunkSize) ==
    /\ rd.pc = "idle"
    /\ LET currentChunkSize == Min(chunkSize, StartCap)
       IN  rd' = [RdIdle EXCEPT !.file = file, !.chunkSize = chunkSize,
                                !.cur = currentChunkSize, !.start = currentChunkSize,
                                !.pc = IF loopContinues(currentChunkSize)
                                       THEN "attempt" ELSE "fallback"]
    /\ UNCHANGED <<dir, now, pc, op, stack, fname, title, resp, h, others>>

\* one turn of the while loop: lines 655-693, and the test of line 654 after it
Attempt ==
    /\ rd.pc = "attempt"
    /\ LET result == readPDFTextChunked(rd.file, rd.cur)
           response == planResponse(result, rd.cur)
           counted == [rd EXCEPT !.attempts = Min(@ + 1, MaxAttempts)]
           smaller == halve(rd.cur)
           again == IF loopContinues(smaller) THEN "attempt" ELSE "fallback"
       IN  IF result.thrown # None
           THEN rd' = [counted EXCEPT !.thrown = result.thrown, !.cur = smaller,
                                      !.pc = again]
           ELSE IF fitsBudget(response)
           THEN rd' = [counted EXCEPT !.resp = response, !.pc = "idle"]
           ELSE rd' = [counted EXCEPT !.overAtOne = @ \/ rd.cur = 1, !.cur = smaller,
                                      !.pc = again]
    /\ UNCHANGED <<dir, now, pc, op, stack, fname, title, resp, h, others>>

\* after the loop: lines 697-713, and the handler's catch of line 793
Fallback ==
    /\ rd.pc = "fallback"
    /\ rd' = [rd EXCEPT !.pc = "idle",
                        !.resp = IF rd.file.exists
                                 THEN firstPageResponse(readPDFText(rd.file, 1, 1))
                                 ELSE readError("NotFound")]
    /\ UNCHANGED <<dir, now, pc, op, stack, fname, title, resp, h, others>>

NextRead ==
    \/ \E file \in Files, chunkSize \in ChunkSizes : CallRead(file, chunkSize)
    \/ Attempt
    \/ Fallback

SpecRead == InitRead /\ [][NextRead]_vars

Spec == Init /\ [][Next]_vars

\* the same tools called with filenames that hold path separators and dots
DirUrls == {UrlScienceDirect, UrlOpenDir}
DirFilenames == {NoString, FileTraversal, FileDots}

NextDir ==
    \/ \E tool \in DownloadOps, u \in DirUrls, f \in DirFilenames : CallDownload(tool, u, f)
    \/ FetchOk
    \/ \E code \in ErrorCodes : FetchFail(code)
    \/ Search1
    \/ Search2
    \/ ReadDownloaded
    \/ ListDownloaded
    \/ Cleanup

SpecDir == Init /\ [][NextDir]_vars

-----------------------------------------------------------------------------
(* Two downloadPDF calls in flight at once. The code between two awaits runs *)
(* to completion, so lines 40-72 of one call are one step.                   *)

\* downloadPDF(u, f) of caller i issues its axios.get
ConcCall(i, u, f) ==
    /\ cc.calls[i].pc = "idle"
    /\ cc' = [cc EXCEPT !.calls[i] = [CallIdle EXCEPT !.pc = "fetch", !.url = u,
                                                      !.filename = f, !.depth = 1]]
    /\ UNCHANGED <<dir, now>>

\* axios.get of caller i resolves: lines 40-72
ConcFetchOk(i) ==
    /\ cc.calls[i].pc = "fetch"
    /\ \E t \in now..MaxClock :
        LET c == cc.calls[i]
            name == storedFilename(c.url, c.filename, t)
            timed == name # storedFilename(c.url, c.filename, t + 1)
        IN  /\ timed \/ t = now
            /\ now' = t
            /\ dir' = writeFileSync(dir, name, Bodies[i])
            /\ cc' = [cc EXCEPT !.calls[i].pc = "done", !.calls[i].at = t,
                                !.calls[i].path = name, !.writes = Append(@, i)]

\* axios.get of caller i rejects: lines 74-82, then line 95 or the await of
\* findPaperOnArxiv
ConcFetchFail(i) ==
    /\ cc.calls[i].pc = "fetch"
    /\ LET c == cc.calls[i]
       IN  cc' = [cc EXCEPT !.calls[i].pc =
                      IF fallbackTitle(c.url, c.filename) # NoString
                      THEN "resolve" ELSE "failed"]
    /\ UNCHANGED <<dir, now>>

\* findPaperOnArxiv of caller i answers: line 87 or the fall through to line 95
ConcResolve(i) ==
    /\ cc.calls[i].pc = "resolve"
    /\ \/ /\ cc.calls[i].depth < MaxDepth
          /\ \E u \in ResolverUrls :
                cc' = [cc EXCEPT !.calls[i].pc = "fetch", !.calls[i].url = u,
                                 !.calls[i].depth = @ + 1]
       \/ cc' = [cc EXCEPT !.calls[i].pc = "failed"]
    /\ UNCHANGED <<dir, now>>

NextConc ==
    /\ \/ \E i \in Callers, u \in CallUrls, f \in Filenames : ConcCall(i, u, f)
       \/ \E i \in Callers : ConcFetchOk(i)
       \/ \E i \in Callers : ConcFetchFail(i)
       \/ \E i \in Callers : ConcResolve(i)
    /\ UNCHANGED <<pc, op, stack, fname, title, resp, h, rd, fan, rs, pf>>

SpecConc == Init /\ [][NextConc]_vars

-----------------------------------------------------------------------------
(* The search_both_sources call *)

\* search_both_sources arrives: both searchPapers calls run up to their
\* axios.get before Promise.all is awaited (lines 574-577)
CallSearchBoth(maxResults) ==
    /\ fan.pc \in {"idle", "done"}
    /\ fan' = [FanIdle EXCEPT !.pc = "waiting", !.maxResults = maxResults,
                              !.issued = {"arxiv", "scholar"}]

\* the arXiv request answers: the rest of ArxivClient.searchPapers
ArxivAnswers(answer) ==
    /\ fan.pc = "waiting"
    /\ fan.arxiv = Pending
    /\ fan' = [fan EXCEPT !.arxiv = arxivSearchPapers(answer), !.arxivAnswer = answer,
                          !.completed = Append(@, "arxiv")]

\* the Google Scholar request answers: the rest of
\* GoogleScholarClient.searchPapers
ScholarAnswers(answer) ==
    /\ fan.pc = "waiting"
    /\ fan.scholar = Pending
    /\ fan' = [fan EXCEPT !.scholar = scholarSearchPapers(answer, fan.maxResults),
                          !.scholarAnswer = answer,
                          !.completed = Append(@, "scholar")]

\* Promise.all settles: rejected as soon as one promise is rejected (the
\* handler's catch, line 793), fulfilled once both are (lines 579-615)
Compose ==
    /\ fan.pc = "waiting"
    /\ LET rejected == "rejected" \in {fan.arxiv.state, fan.scholar.state}
           fulfilled == fan.arxiv.state = "fulfilled" /\ fan.scholar.state = "fulfilled"
       IN  /\ rejected \/ fulfilled
           /\ fan' = [fan EXCEPT !.pc = "done",
                                 !.resp = IF rejected THEN searchError
                                          ELSE bothSourcesResponse(fan.arxiv.value,
                                                                   fan.scholar.value)]

NextSearch ==
    /\ \/ \E maxResults \in 1..MaxHits : CallSearchBoth(maxResults)
       \/ \E answer \in Answers : ArxivAnswers(answer)
       \/ \E answer \in Answers : ScholarAnswers(answer)
       \/ Compose
    /\ UNCHANGED <<dir, now, pc, op, stack, fname, title, resp, h, rd, cc, rs, pf>>

SpecSearch == Init /\ [][NextSearch]_vars

-----------------------------------------------------------------------------
(* The findPaperOnArxiv call *)

\* findPaperOnArxiv(title) issues its first request (lines 118-129)
CallFind(title_) ==
    /\ rs.pc \in {"idle", "done"}
    /\ rs' = [RsIdle EXCEPT !.pc = "pass1", !.title = title_,
                            !.queries = <<exactQuery(title_)>>]

\* the first request answers: lines 129-132 and 157-166
Pass1Answers(feed) ==
    /\ rs.pc = "pass1"
    /\ LET answered == [rs EXCEPT !.answers = Append(@, feed)]
       IN  IF ~feed.ok
           THEN rs' = [answered EXCEPT !.pc = "done", !.result = NoString]
           ELSE IF noEntries(feed)
           THEN rs' = [answered EXCEPT !.pc = "pass2",
                                       !.queries = Append(@, fallbackQuery(rs.title))]
           ELSE rs' = [answered EXCEPT !.pc = "done",
                                       !.result = firstEntryLink(feed.entries)]

\* the second request answers: lines 143-155 and 163-166
Pass2Answers(feed) ==
    /\ rs.pc = "pass2"
    /\ rs' = [rs EXCEPT !.answers = Append(@, feed), !.pc = "done",
                        !.result = IF ~feed.ok \/ noEntries(feed) THEN NoString
                                   ELSE firstEntryLink(feed.entries)]

NextResolve ==
    /\ \/ \E title_ \in Titles : CallFind(title_)
       \/ \E feed \in Feeds : Pass1Answers(feed)
       \/ \E feed \in Feeds : Pass2Answers(feed)
    /\ UNCHANGED <<dir, now, pc, op, stack, fname, title, resp, h, rd, cc, fan, pf>>

SpecResolve == Init /\ [][NextResolve]_vars

-----------------------------------------------------------------------------
(* The functions of PDFUtils applied to one input each *)

\* the names sanitization is applied to: letters, digits, the three allowed
\* punctuation characters and some that are not allowed
NameChars == {"a", "Z", "7", ".", "_", "-", "/", " ", "%"}
Names == UNION {[1..n -> NameChars] : n \in 0..MaxNameLen}
SanitizeCalls == [fn : {"sanitize"}, applied : {FALSE}, name : Names,
                  out : {[once |-> NoString, twice |-> NoString]}]

\* downloadPDF(pdfUrl, filename?) as far as the name it stores under
StoredNameCalls == [fn : {"storedFilename"}, applied : {FALSE},
                    pdfUrl : Urls \cup {UrlScholar}, filename : Filenames,
                    t : 0..MaxClock, out : {NoString}]

\* extractTitleFromUrl(url, filename?)
TitleCalls == [fn : {"extractTitleFromUrl"}, applied : {FALSE},
               url : Urls \cup {UrlScholar, UrlQueryShort, UrlQueryLong},
               filename : Filenames \cup {FileShort}, out : {NoString}]

\* the window loop and the chunk metadata for one page count and chunk size
WindowCalls == [fn : {"chunkWindows"}, applied : {FALSE}, totalPages : 1..MaxDocPages,
                chunkSize : 1..MaxWindow, out : {[windows |-> <<>>, entries |-> <<>>]}]

PureCalls ==
    ReadCalls \cup SanitizeCalls \cup StoredNameCalls \cup TitleCalls \cup WindowCalls

InitPure ==
    /\ cc = CcIdle /\ fan = FanIdle /\ rs = RsIdle
    /\ pf \in PureCalls
    /\ dir = EmptyDir
    /\ now = 0
    /\ pc = "idle"
    /\ op = None
    /\ stack = <<>>
    /\ fname = NoString
    /\ title = NoString
    /\ resp = NoResp
    /\ h = NoHistory
    /\ rd = RdIdle

Applying(fn) == pf.fn = fn /\ ~pf.applied
Applied(fn) == pf.fn = fn /\ pf.applied

ApplyReadPDFText ==
    /\ Applying("readPDFText")
    /\ pf' = [pf EXCEPT !.applied = TRUE,
                        !.out = readPDFTextCall(pf.file, pf.startPage, pf.endPage)]

\* line 64, and the same line run on a name that went through it
ApplySanitize ==
    /\ Applying("sanitize")
    /\ pf' = [pf EXCEPT !.applied = TRUE,
                        !.out = [once |-> sanitize(pf.name),
                                 twice |-> sanitize(sanitize(pf.name))]]

\* lines 40-64 at Date.now() = t
ApplyStoredFilename ==
    /\ Applying("storedFilename")
    /\ pf' = [pf EXCEPT !.applied = TRUE,
                        !.out = storedFilename(pf.pdfUrl, pf.filename, pf.t)]

\* lines 170-200
ApplyExtractTitle ==
    /\ Applying("extractTitleFromUrl")
    /\ pf' = [pf EXCEPT !.applied = TRUE,
                        !.out = extractTitleFromUrl(pf.url, pf.filename)]

\* lines 256-260 and lines 663-668 over the chunks they produce
ApplyChunkWindows ==
    /\ Applying("chunkWindows")
    /\ LET windows == chunkWindows(1, pf.chunkSize, pf.totalPages)
       IN  pf' = [pf EXCEPT !.applied = TRUE,
                            !.out = [windows |-> windows,
                                     entries |-> [i \in 1..Len(windows) |->
                                         chunkEntry(Text(0, 0), i - 1, pf.chunkSize,
                                                    pf.totalPages)]]]

NextPure ==
    /\ \/ ApplyReadPDFText
       \/ ApplyChunkWindows
       \/ ApplyExtractTitle
       \/ ApplyStoredFilename
       \/ ApplySanitize
    /\ UNCHANGED <<dir, now, pc, op, stack, fname, title, resp, h, rd, cc, fan, rs>>

SpecPure == InitPure /\ [][NextPure]_vars

-----------------------------------------------------------------------------
(* Properties of downloadPDF, checked under Spec *)

Downloading == op \in DownloadOps
DownloadReturned == op \in DownloadOps /\ pc = "idle"

\* C1: a download from a paywalled URL invokes findPaperOnArxiv at most once
\* and issues at most two fetches, whatever the resolver and the fetches answer.
ResolverOnceFetchTwice ==
    (Downloading /\ isPaywalledSource(h.url)) => (h.resolves <= 1 /\ h.fetches <= 2)

\* C2: the failed fetch of a URL judged non-paywalled ends the call with that
\* failure: no title inference, no resolver call and no further fetch follow it.
NonPaywalledFailurePropagates ==
    /\ (Downloading /\ ~isPaywalledSource(h.url))
          => /\ h.resolves = 0
             /\ h.fetches = 1
             /\ pc \notin {"search1", "search2"}
             /\ h.primaryErr # NoErr
                   => (pc = "idle" /\ resp.isError /\ resp.cause = h.primaryErr)
    /\ (Downloading /\ h.lastErr # NoErr /\ ~isPaywalledSource(h.lastErr.url))
          => (pc = "idle" /\ resp.isError /\ h.resolves = h.fetches - 1)

\* C2 witness: a non-paywalled download failed although a title could be inferred
NonPaywalledFailureSeen ==
    /\ DownloadReturned
    /\ h.url = UrlOpenDir
    /\ fname = FileLong
    /\ extractTitleFromUrl(h.url, fname) # NoString
    /\ h.primaryErr # NoErr

\* C7: the download of https://sciencedirect.com/paper123.pdf without a filename
\* whose primary fetch fails returns an artifact holding the bytes of the URL
\* the resolver found, unless the provider or the substitute fetch declined.
ScienceDirectFallsBack ==
    (/\ DownloadReturned
     /\ h.url = UrlScienceDirect
     /\ fname = NoString
     /\ h.primaryErr # NoErr
     /\ ~h.declined)
        => /\ ~resp.isError
           /\ resp.filepath \in DOMAIN dir
           /\ dir[resp.filepath] \in ResolverUrls

CleanupReturnsCount ==
    /\ op = "cleanup_downloads"
          => /\ dir = EmptyDir
             /\ "deletedCount" \in resp.fields
             /\ resp.count = Cardinality(DOMAIN h.dir0)
    /\ (op = "list_downloaded_pdfs" /\ h.cleaned) => resp.files = {}

\* C10 amended: cleanup removes all n files, writes the count n to the console
\* and answers with its fixed message, which carries no count; a list made
\* before any new download is empty.
CleanupRemovesAll ==
    /\ op = "cleanup_downloads"
          => /\ dir = EmptyDir
             /\ h.logged = <<Cardinality(DOMAIN h.dir0)>>
             /\ resp = cleanupResponse
             /\ resp.fields = {"action", "message"}
    /\ (op = "list_downloaded_pdfs" /\ h.cleaned)
          => (resp.files = {} /\ resp.count = 0 /\ dir = EmptyDir)

\* C10 witness: cleanup ran on a directory of three files
CleanedThreeFiles ==
    /\ op = "cleanup_downloads"
    /\ Cardinality(DOMAIN h.dir0) = 3
    /\ dir = EmptyDir

-----------------------------------------------------------------------------
(* Properties of the downloads directory, checked under SpecDir *)

SafeName(n) ==
    /\ \A i \in 1..Len(n) : n[i] \in LowerChars \cup UpperChars \cup DigitSet \cup {".", "_", "-"}
    /\ Len(n) >= 4
    /\ SubSeq(n, Len(n) - 3, Len(n)) = <<".", "p", "d", "f">>
    /\ \A i \in 1..Len(n) : n[i] # "/"

\* C19: from an empty downloads directory, after any sequence of downloads,
\* download-and-reads, listings and cleanups, every file of the directory was
\* written by a successful download, lies directly in the directory and has a
\* name of [A-Za-z0-9._-] characters ending in .pdf, whatever the URL and the
\* caller's filename; list_downloaded_pdfs returns exactly the filepaths
\* returned by successful downloads since the last cleanup.
DirectoryHoldsReturnedPdfs ==
    /\ \A n \in DOMAIN dir : SafeName(n)
    /\ pc = "idle" => DOMAIN dir = h.returned
    /\ pc = "read" => DOMAIN dir = h.returned \cup {resp.filepath}
    /\ pc \notin {"idle", "read"} => DOMAIN dir = h.returned
    /\ op = "list_downloaded_pdfs" => resp.files = h.returned

\* a listing after downloads under a traversal filename and under a derived name
TraversalNameListed ==
    /\ op = "list_downloaded_pdfs"
    /\ sanitize(FileTraversal \o DotPdf) \in resp.files
    /\ Cardinality(resp.files) >= 2
    /\ h.returned = resp.files

-----------------------------------------------------------------------------
(* Properties of the chunked read, checked under SpecRead *)

\* ceil(log2(n)) for n >= 1
RECURSIVE CeilLog2(_)
CeilLog2(n) == IF n <= 1 THEN 0 ELSE 1 + CeilLog2((n + 1) \div 2)

\* C3: once the plan is over budget at working chunk size 1, the call goes to
\* the first page alone and returns it capped at 80000 characters and flagged.
OverBudgetAtOneFallsBack ==
    rd.overAtOne =>
        \/ rd.pc = "fallback"
        \/ /\ rd.pc = "idle"
           /\ rd.resp.kind = "firstPage"
           /\ rd.resp.textLength <= MaxFirstPageChars
           /\ rd.resp.truncated

\* C4: the working chunk size never grows, and a call makes at most
\* ceil(log2(initial chunk size)) + 1 attempts.
AttemptsBounded ==
    (rd.pc # "idle" \/ rd.resp.kind # None) /\ rd.start >= 1
        => (rd.cur <= rd.start /\ rd.attempts <= CeilLog2(rd.start) + 1)

\* C5: when the planner cannot find the file or its page count, the call has
\* returned an error, and it returns an error for nothing else.
PlannerErrorsReturned ==
    /\ rd.thrown # None => (rd.pc = "idle" /\ rd.resp.kind = "error")
    /\ rd.resp.kind = "error"
          => (~rd.file.exists \/ ~rd.file.pdfinfoOk \/ Len(rd.file.pages) = 0)

\* C6: the chunks of a returned plan partition pages 1..totalPages: they start
\* at 1, each starts right after the one before, none is empty or longer than
\* the chunk size, only the last may be shorter, and the last ends at totalPages.
PlanPartitionsPages ==
    rd.resp.kind = "plan" =>
        LET c == rd.resp.chunks
            n == Len(c)
        IN  /\ rd.resp.totalPages >= 1
            /\ n >= 1
            /\ c[1].startPage = 1
            /\ c[n].endPage = rd.resp.totalPages
            /\ \A i \in 1..n :
                  /\ c[i].chunkIndex = i - 1
                  /\ c[i].startPage <= c[i].endPage
                  /\ c[i].endPage - c[i].startPage + 1 <= rd.resp.chunkSize
                  /\ i < n => c[i].endPage - c[i].startPage + 1 = rd.resp.chunkSize
            /\ \A i \in 1..(n - 1) : c[i].endPage + 1 = c[i + 1].startPage

\* C6 witness: a returned plan of several chunks whose last one is short
ShortLastChunkPlanned ==
    /\ rd.resp.kind = "plan"
    /\ Len(rd.resp.chunks) >= 2
    /\ rd.resp.chunkSize = 2
    /\ rd.resp.chunks[Len(rd.resp.chunks)].startPage = rd.resp.totalPages

\* the plan of a document at chunk size c is within the budget of 15000
\* estimated tokens (characters / 4)
Within(file, c) ==
    LET result == readPDFTextChunked(file, c)
    IN  result.thrown = None
        /\ responseLength(planResponse(result, c)) <= CharsPerToken * maxTokens

CeilDiv(a, b) == (a + b - 1) \div b

OverAtTwoWithinAtOne ==
    rd.pc # "idle" /\ ~Within(rd.file, 2) /\ Within(rd.file, 1) /\ Len(rd.file.pages) >= 1
    /\ rd.file.pdfinfoOk

\* the number of characters readPDFText(filepath, 1, 1) returns for a file
\* that exists: page 1, or the fixed message when it cannot be extracted
FirstPageLength(file) ==
    IF file.extractOk /\ Len(file.pages) >= 1
    THEN file.pages[1].plain + file.pages[1].esc
    ELSE PlaceholderChars

\* C21: a chunked read with a requested chunk size of 0 or less never runs the
\* planner (no page count, no windowed extraction): it goes straight to the
\* first page and returns its text cut to 80000 characters, flagged truncated
\* exactly when the text was longer, or an error result when the file does
\* not exist.
NonPositiveSizeReadsFirstPage ==
    rd.chunkSize <= 0 /\ (rd.pc # "idle" \/ rd.resp.kind # None) =>
        /\ rd.attempts = 0
        /\ rd.thrown = None
        /\ rd.pc \in {"fallback", "idle"}
        /\ rd.pc = "idle" =>
              IF ~rd.file.exists
              THEN rd.resp.kind = "error"
              ELSE /\ rd.resp.kind = "firstPage"
                   /\ rd.resp.chunks = <<>>
                   /\ rd.resp.textLength =
                         IF FirstPageLength(rd.file) > 80000 THEN 80000
                         ELSE FirstPageLength(rd.file)
                   /\ rd.resp.truncated <=> FirstPageLength(rd.file) > 80000

\* chunkSize = 0 on a document whose first page is longer than 80000
\* characters: the first page, cut and flagged
ZeroSizeCutFirstPage ==
    /\ rd.chunkSize = 0
    /\ rd.pc = "idle"
    /\ rd.file.exists /\ rd.file.extractOk
    /\ Len(rd.file.pages) >= 2
    /\ rd.file.pages[1] = HugePage
    /\ rd.resp.kind = "firstPage"
    /\ rd.resp.textLength = 80000
    /\ rd.resp.truncated

-----------------------------------------------------------------------------
(* Properties of concurrent downloads, checked under SpecConc *)

BothWritten == \A i \in Callers : cc.calls[i].pc = "done"
DerivedName(i) ==
    storedFilename(cc.calls[i].url, cc.calls[i].filename, cc.calls[i].at)

\* C11: once two concurrent downloadPDF calls have both written, calls that
\* derived the same filename returned the same filepath and the file holds
\* exactly the response bytes of the call that wrote last; calls that derived
\* distinct filenames each left their own file with their own bytes.
LastWriterWins ==
    BothWritten =>
        /\ \A i \in Callers : cc.calls[i].path = DerivedName(i)
        /\ \A i \in Callers : cc.calls[i].path \in DOMAIN dir
        /\ IF DerivedName(1) = DerivedName(2)
           THEN /\ cc.calls[1].path = cc.calls[2].path
                /\ dir[cc.calls[1].path] = Bodies[cc.writes[Len(cc.writes)]]
           ELSE \A i \in Callers : dir[cc.calls[i].path] = Bodies[i]

\* both calls wrote the same derived name, caller 1 last
SameNameRaced ==
    /\ BothWritten
    /\ DerivedName(1) = DerivedName(2)
    /\ cc.writes = <<2, 1>>
    /\ dir[cc.calls[1].path] = Bodies[1]


-----------------------------------------------------------------------------
(* Properties of search_both_sources, checked under SpecSearch *)

\* what a source contributes to the combined result, from its provider's answer
Expected(answer, cap) ==
    IF answer.ok THEN SubSeq(answer.hits, 1, Min(Len(answer.hits), cap)) ELSE <<>>

\* C12: search_both_sources has both requests in flight while it waits and
\* composes its result only after both have completed; a failure of one source
\* never fails the call: the combined result gives the failed source count 0
\* and the other source its own results, in either completion order.
FanOutIndependent ==
    /\ fan.pc = "waiting" => fan.issued = {"arxiv", "scholar"}
    /\ fan.pc = "done" =>
        /\ Len(fan.completed) = 2
        /\ ~fan.resp.isError
        /\ fan.resp.arxiv.results = Expected(fan.arxivAnswer, MaxHits)
        /\ fan.resp.arxiv.count = Len(fan.resp.arxiv.results)
        /\ fan.resp.scholar.results = Expected(fan.scholarAnswer, fan.maxResults)
        /\ fan.resp.scholar.count = Len(fan.resp.scholar.results)
        /\ ~fan.arxivAnswer.ok => fan.resp.arxiv.count = 0
        /\ ~fan.scholarAnswer.ok => fan.resp.scholar.count = 0

\* arXiv failed after Google Scholar had answered with two results
ArxivFailedScholarIntact ==
    /\ fan.pc = "done"
    /\ fan.completed = <<"scholar", "arxiv">>
    /\ fan.arxivAnswer = Failure
    /\ fan.resp.arxiv.count = 0
    /\ fan.resp.scholar.count = 2


-----------------------------------------------------------------------------
(* Properties of the functions of PDFUtils, checked under SpecPure *)

\* the extraction capability is present and the requested range starts inside
\* the document
Extractable(file, startPage) ==
    /\ file.extractOk
    /\ Len(file.pages) >= 1
    /\ startPage # Undefined => startPage <= Len(file.pages)

\* C13: readPDFText fails with a not-found error exactly when the file does
\* not exist; for an existing file whose extraction is unavailable or errors it
\* returns the fixed placeholder without raising; otherwise it returns the text
\* of the whole document when both bounds are omitted and of pages
\* startPage..last when only startPage is given.
ReadTextContract ==
    Applied("readPDFText") =>
        LET file == pf.file
            n == Len(file.pages)
        IN  /\ pf.out.thrown = "NotFound" <=> ~file.exists
            /\ pf.out.thrown # None <=> ~file.exists
            /\ file.exists /\ ~Extractable(file, pf.startPage) =>
                   pf.out.text = Placeholder
            /\ file.exists /\ Extractable(file, pf.startPage) /\ pf.endPage = Undefined =>
                   pf.out.text = Concat(file.pages,
                                        IF pf.startPage = Undefined THEN 1 ELSE pf.startPage,
                                        n)

\* pages 2..3 of a three-page document read with startPage = 2 and no endPage
ReadFromSecondPage ==
    /\ Applied("readPDFText")
    /\ pf.file.exists /\ pf.file.extractOk
    /\ Len(pf.file.pages) = 3
    /\ pf.startPage = 2 /\ pf.endPage = Undefined
    /\ pf.out.thrown = None
    /\ pf.out.text = Concat(pf.file.pages, 2, 3)
    /\ pf.out.text # Concat(pf.file.pages, 1, 3)

\* the characters a stored name may be made of
AllowedChars ==
    {"a","b","c","d","e","f","g","h","i","j","k","l","m","n","o","p","q","r","s","t",
     "u","v","w","x","y","z","A","B","C","D","E","F","G","H","I","J","K","L","M","N",
     "O","P","Q","R","S","T","U","V","W","X","Y","Z","0","1","2","3","4","5","6","7",
     "8","9",".","_","-"}

\* C15: sanitization replaces every character outside [A-Za-z0-9._-] with '_'
\* and is idempotent: sanitizing a sanitized name gives the same name.
SanitizeIdempotent ==
    Applied("sanitize") =>
        /\ pf.out.twice = pf.out.once
        /\ Len(pf.out.once) = Len(pf.name)
        /\ \A i \in 1..Len(pf.name) :
              pf.out.once[i] = IF pf.name[i] \in AllowedChars THEN pf.name[i] ELSE "_"

\* a name with two disallowed characters went through sanitization twice
TwoSlashesSanitized ==
    /\ Applied("sanitize")
    /\ pf.name = <<"/", "a", "/">>
    /\ pf.out.once = <<"_", "a", "_">>
    /\ pf.out.twice = <<"_", "a", "_">>

\* the host of an absolute URL: the text between "//" and the next "/"
Host(url) == Before(After(After(url, "/"), "/"), "/")

\* C16: with no caller-supplied filename the stored name is arxiv_<id>.pdf when
\* the URL's host is arxiv.org (<id> the path segment after /pdf/), a
\* time-based name when the host is scholar.google, and otherwise the final
\* path segment without a trailing .pdf, or a time-based name when that segment
\* is empty, with .pdf appended.
NameDerivedByHost ==
    Applied("storedFilename") /\ pf.filename = NoString =>
        LET last == RemoveTrailing(LastPart(pf.pdfUrl, "/"), DotPdf)
        IN  IF Includes(Host(pf.pdfUrl), ArxivOrg)
            THEN pf.out = sanitize(PfxArxiv \o arxivIdOf(pf.pdfUrl) \o DotPdf)
            ELSE IF Includes(Host(pf.pdfUrl), ScholarGoogle)
            THEN pf.out = sanitize(PfxScholar \o Digits(pf.t) \o DotPdf)
            ELSE IF last # NoString
            THEN pf.out = sanitize(last \o DotPdf)
            ELSE pf.out = sanitize(PfxPaper \o Digits(pf.t) \o DotPdf)

\* the least length a candidate title must exceed
TitleThreshold == 10

\* C17: title inference takes the first accepted candidate of: the
\* caller-supplied filename, the query parameters title, q, query, the final
\* path segment; a filename or query-parameter candidate is accepted only if it
\* is longer than 10 characters and a path segment only if it has no period;
\* with no accepted candidate the result is none.
TitleByThreshold ==
    Applied("extractTitleFromUrl") =>
        LET byName == SpaceOut(RemoveTrailing(pf.filename, DotPdf))
            byQuery == Or(searchParamsGet(pf.url, KeyTitle),
                          Or(searchParamsGet(pf.url, KeyQ), searchParamsGet(pf.url, KeyQuery)))
            byPath == LastPart(pf.url, "/")
        IN  pf.out =
              IF pf.filename # NoString /\ Len(byName) > TitleThreshold THEN byName
              ELSE IF Len(byQuery) > TitleThreshold THEN byQuery
              ELSE IF Len(byPath) > TitleThreshold /\ ~Includes(byPath, <<".">>)
                   THEN SpaceOut(byPath)
              ELSE NoString


-----------------------------------------------------------------------------
(* Properties of findPaperOnArxiv, checked under SpecResolve *)

Punctuation == {"-", ":", "\"", "!", "'", ".", ",", "?"}

\* C18: findPaperOnArxiv makes its second, unquoted and de-punctuated search
\* only after the exact-phrase search answered with zero results, so at most
\* two searches per call; it returns the PDF link of the first-ranked entry of
\* the search that had entries, and not-found, without raising, when neither
\* search has entries, when that first entry has no PDF link, or when a
\* request fails.
ResolverTwoPass ==
    /\ Len(rs.queries) <= 2 /\ Len(rs.answers) <= Len(rs.queries)
    /\ ~rs.raised
    /\ Len(rs.queries) = 2 =>
          /\ rs.answers[1].ok /\ rs.answers[1].entries = <<>>
          /\ \A i \in 1..Len(rs.queries[2]) : rs.queries[2][i] \notin Punctuation
    /\ rs.pc = "done" =>
          LET last == rs.answers[Len(rs.answers)]
          IN  /\ Len(rs.answers) = Len(rs.queries)
              /\ Len(rs.answers) = 1 => ~last.ok \/ last.entries # <<>>
              /\ rs.result = IF last.ok /\ last.entries # <<>>
                              THEN last.entries[1] ELSE NoString

\* the first-ranked entry has no PDF link and the second has one: not found
\* after one search
FirstEntryUnlinked ==
    /\ rs.pc = "done"
    /\ Len(rs.queries) = 1
    /\ rs.answers[1].ok
    /\ Len(rs.answers[1].entries) >= 2
    /\ rs.answers[1].entries[1] = NoString
    /\ rs.answers[1].entries[2] # NoString
    /\ rs.result = NoString

\* C20: for every page count >= 1 and chunk size >= 1, the startPage and
\* endPage the handler reports for chunk i are the page window
\* readPDFTextChunked extracted for its i-th text, and there are as many
\* reported chunks as extracted windows.
MetadataMatchesWindows ==
    Applied("chunkWindows") =>
        /\ Len(pf.out.entries) = Len(pf.out.windows)
        /\ Len(pf.out.windows) = (pf.totalPages + pf.chunkSize - 1) \div pf.chunkSize
        /\ \A i \in 1..Len(pf.out.windows) :
              /\ pf.out.entries[i].chunkIndex = i - 1
              /\ pf.out.entries[i].startPage = pf.out.windows[i].startPage
              /\ pf.out.entries[i].endPage = pf.out.windows[i].endPage
              /\ pf.out.windows[i].startPage = (i - 1) * pf.chunkSize + 1
              /\ 1 <= pf.out.windows[i].startPage
              /\ pf.out.windows[i].startPage <= pf.out.windows[i].endPage
              /\ pf.out.windows[i].endPage <= pf.totalPages

\* eleven pages in chunks of four: three windows, the last one short
ElevenPagesInFours ==
    /\ Applied("chunkWindows")
    /\ pf.totalPages = 11 /\ pf.chunkSize = 4
    /\ Len(pf.out.windows) = 3
    /\ pf.out.entries[3].startPage = 9 /\ pf.out.entries[3].endPage = 11
    /\ pf.out.windows[3] = [startPage |-> 9, endPage |-> 11]

=============================================================================
